---- MODULE Spec2Model ----
(***************************************************************************)
(* Model of the data-analyst agent: the task-decomposition ->              *)
(* code-synthesis -> sandboxed-execution pipeline of                       *)
(* DataAnalystAgent.process_request and the pure functions it uses.        *)
(*                                                                         *)
(* Strings are sequences of tokens.  A token is an atomic piece of text    *)
(* (a character such as "1", "." or " ", or a whole word); the text a      *)
(* token sequence stands for is the concatenation of its tokens.  The      *)
(* vocabulary is chosen so that no needle the code searches for spans two  *)
(* tokens; Subs gives, per token, the needles that occur inside it.        *)
(*                                                                         *)
(* Specifications:                                                         *)
(*   Spec           one request through process_request;                   *)
(*   SpecService    the HTTP service of api/index.py around it;            *)
(*   SpecFallback   the two fallback parsers over every short text;        *)
(*   SpecDecompose  parse_task over every short reply of the model;        *)
(*   SpecSelect     _select_best_table over every short list of tables.    *)
(***************************************************************************)
EXTENDS Naturals, Sequences, FiniteSets

VARIABLES
    pc,               \* position of the request in process_request
    question_text,    \* the raw request text
    llm_response,     \* the language model's answer to the decomposition prompt
    task_breakdown,   \* value returned by parse_task
    structured_data,  \* the dataset (None, or a data frame)
    is_json_response, \* response shape decided from the text
    tasks,            \* the list the loop iterates
    i,                \* 0-based loop index (enumerate)
    result,           \* value computed for the current task
    exc,              \* exception in flight (None when there is none)
    results,          \* array-mode accumulator
    result_dict,      \* object-mode accumulator
    response,         \* value returned by process_request
    files,            \* scratch files that exist on disk
    child,            \* the child process of the executor (None when there is none)
    env,              \* the environment variables of the server process
    http,             \* the reply of analyze_data (None when there is none)
    candidates,       \* the candidate tables extract_tables found
    log               \* observation history: what happened for each task

vars == <<pc, question_text, llm_response, task_breakdown, structured_data,
          is_json_response, tasks, i, result, exc, results, result_dict,
          response, files, child, env, http, candidates, log>>

(***************************************************************************)
(* Bounds of the model.                                                    *)
(***************************************************************************)
MaxTextLen == 5
MaxReplyLen == 4
MaxTasks == 2
MaxTables == 3

None == [none |-> TRUE]

(***************************************************************************)
(* Text primitives.                                                        *)
(***************************************************************************)
NL == "\n"
SP == " "

\* str.lower() of one token.
Lower(t) ==
    CASE t = "PLOT" -> "plot"
      [] t = "DuckDB" -> "duckdb"
      [] t = "S3://" -> "s3://"
      [] t = "Return as JSON" -> "return as json"
      [] OTHER -> t

\* The needles (keywords, format signals) that occur as substrings of a token.
Subs(t) ==
    CASE t = "scatterplot" -> {"scatterplot", "plot"}
      [] t = "paragraph" -> {"paragraph", "graph"}
      [] t = "country" -> {"country", "count"}
      [] t = "{\"question\":" -> {"{\"", "\"question\":"}
      [] OTHER -> {t}

\* needle in text
Contains(text, needle) == \E k \in DOMAIN text : needle \in Subs(text[k])

\* needle in text.lower()
ContainsLower(text, needle) == \E k \in DOMAIN text : needle \in Subs(Lower(text[k]))

RECURSIVE SplitAcc(_, _, _)
SplitAcc(rest, cur, acc) ==
    IF rest = <<>> THEN Append(acc, cur)
    ELSE IF Head(rest) = NL THEN SplitAcc(Tail(rest), <<>>, Append(acc, cur))
    ELSE SplitAcc(Tail(rest), Append(cur, Head(rest)), acc)

\* text.split('\n')
SplitLines(text) == SplitAcc(text, <<>>, <<>>)

IsSpace(t) == t \in {SP, NL}

\* line.strip()
Strip(line) ==
    LET keep == {k \in DOMAIN line : ~IsSpace(line[k])}
    IN  IF keep = {} THEN <<>>
        ELSE LET lo == CHOOSE k \in keep : \A j \in keep : k <= j
                 hi == CHOOSE k \in keep : \A j \in keep : k >= j
             IN  SubSeq(line, lo, hi)

IsDigit(t) == t \in {"1", "2"}

\* re.match(r'^\d+\.', line)
MatchOrdinal(line) ==
    \E k \in DOMAIN line :
        /\ k >= 2
        /\ line[k] = "."
        /\ \A j \in 1..(k - 1) : IsDigit(line[j])

\* a task as a Python value: a dict with the keys in fields, or something else
Task(type, question) ==
    [kind |-> "dict", fields |-> {"type", "question", "details"},
     type |-> type, question |-> question, details |-> <<>>, hashable |-> TRUE]

(***************************************************************************)
(* The two fallback parsers.                                               *)
(***************************************************************************)
AgentVizWords == {"draw", "plot", "chart", "scatterplot", "graph"}
AgentNumWords == {"how many", "count", "number of"}
ClientVizWords == {"draw", "plot", "chart", "scatterplot"}
ClientNumWords == {"how many", "count"}

\* agent.py, the if/elif chain of _extract_questions_from_text
ClassifyAgent(line) ==
    IF ContainsLower(line, "correlation") THEN "correlation"
    ELSE IF \E w \in AgentVizWords : ContainsLower(line, w) THEN "visualization"
    ELSE IF \E w \in AgentNumWords : ContainsLower(line, w) THEN "numerical"
    ELSE "text"

\* llm_client.py, the if/elif chain of _fallback_parse
ClassifyClient(line) ==
    IF ContainsLower(line, "correlation") THEN "correlation"
    ELSE IF \E w \in ClientVizWords : ContainsLower(line, w) THEN "visualization"
    ELSE IF \E w \in ClientNumWords : ContainsLower(line, w) THEN "numerical"
    ELSE "text"

RECURSIVE ScanAgent(_)
ScanAgent(lines) ==
    IF lines = <<>> THEN <<>>
    ELSE LET line == Strip(Head(lines))
         IN  IF MatchOrdinal(line)
             THEN <<Task(ClassifyAgent(line), line)>> \o ScanAgent(Tail(lines))
             ELSE ScanAgent(Tail(lines))

RECURSIVE ScanClient(_)
ScanClient(lines) ==
    IF lines = <<>> THEN <<>>
    ELSE LET line == Strip(Head(lines))
         IN  IF MatchOrdinal(line)
             THEN <<Task(ClassifyClient(line), line)>> \o ScanClient(Tail(lines))
             ELSE ScanClient(Tail(lines))

\* DataAnalystAgent._extract_questions_from_text
_extract_questions_from_text(text) == ScanAgent(SplitLines(text))

\* tokens made of characters a URL match stops at (whitespace, braces, quotes)
StopsUrl(t) == IsSpace(t) \/ t \in {"{", "}", "{\"", "\"question\":", "{\"question\":"}

IsUrlStart(t) == t \in {"http://u", "https://v"}

RECURSIVE UrlRun(_)
UrlRun(rest) ==
    IF rest = <<>> \/ StopsUrl(Head(rest)) THEN <<>>
    ELSE <<Head(rest)>> \o UrlRun(Tail(rest))

\* None as returned by extract_url (a match is never the empty string)
NoUrl == <<>>

\* re.findall(url_pattern, text)[0], or None
extract_url(text) ==
    LET starts == {k \in DOMAIN text : IsUrlStart(text[k])}
    IN  IF starts = {} THEN NoUrl
        ELSE LET k == CHOOSE s \in starts : \A j \in starts : s <= j
             IN  <<text[k]>> \o UrlRun(SubSeq(text, k + 1, Len(text)))

\* GeminiClient._extract_url_from_text
_extract_url_from_text(text) == extract_url(text)

\* GeminiClient._fallback_parse
_fallback_parse(text) ==
    LET url == _extract_url_from_text(text)
    IN  [keys |-> {"data_source", "tasks"},
         data_source |-> IF url = NoUrl THEN <<"unknown">> ELSE url,
         tasks |-> ScanClient(SplitLines(text)),
         iterable |-> TRUE]

(***************************************************************************)
(* The language model's reply to the decomposition prompt, and parse_task. *)
(* A reply is a sequence of reply tokens: an opening brace, a closing      *)
(* brace, a "key": value member of a JSON object, or prose.                *)
(***************************************************************************)
LB == [t |-> "{", key |-> "", iterable |-> TRUE, val |-> <<>>]
RB == [t |-> "}", key |-> "", iterable |-> TRUE, val |-> <<>>]
Prose == [t |-> "prose", key |-> "", iterable |-> TRUE, val |-> <<>>]
\* "tasks": [ ... ]
TasksMember(list) == [t |-> "member", key |-> "tasks", iterable |-> TRUE, val |-> list]
\* "tasks": 5 (a value that is truthy and cannot be iterated)
ScalarTasksMember == [t |-> "member", key |-> "tasks", iterable |-> FALSE, val |-> <<>>]
\* "data_source": "..."
SourceMember == [t |-> "member", key |-> "data_source", iterable |-> TRUE, val |-> <<"src">>]

\* re.search(r'\{.*\}', text, re.DOTALL): from the first "{" to the last "}",
\* <<>> when there is no match
JsonSearch(text) ==
    LET opens == {k \in DOMAIN text : text[k] = LB}
        closes == {k \in DOMAIN text : text[k] = RB}
    IN  IF opens = {} THEN <<>>
        ELSE LET lo == CHOOSE k \in opens : \A j \in opens : k <= j
                 after == {k \in closes : k > lo}
             IN  IF after = {} THEN <<>>
                 ELSE SubSeq(text, lo, CHOOSE k \in after : \A j \in after : k >= j)

\* json.loads accepts the span: an object whose body is a list of members
JsonValid(span) ==
    /\ Len(span) >= 2
    /\ span[1] = LB
    /\ span[Len(span)] = RB
    /\ \A k \in 2..(Len(span) - 1) : span[k].t = "member"

\* the last member with the given key (json.loads keeps the last duplicate)
LastMember(span, key) ==
    LET at == {k \in DOMAIN span : span[k].t = "member" /\ span[k].key = key}
    IN  span[CHOOSE k \in at : \A j \in at : k >= j]

\* json.loads(span), for a span JsonValid accepts
JsonLoads(span) ==
    LET keys == {span[k].key : k \in {j \in DOMAIN span : span[j].t = "member"}}
    IN  [keys |-> keys,
         data_source |-> IF "data_source" \in keys
                         THEN LastMember(span, "data_source").val ELSE <<>>,
         tasks |-> IF "tasks" \in keys THEN LastMember(span, "tasks").val ELSE <<>>,
         iterable |-> IF "tasks" \in keys
                      THEN LastMember(span, "tasks").iterable ELSE TRUE]

\* parse_task without its except clause: a json.loads failure escapes and no
\* value is returned
C6_ParseTaskUncaught(text, reply) ==
    IF reply.raises THEN _fallback_parse(text)
    ELSE LET json_match == JsonSearch(reply.text)
         IN  IF json_match # <<>>
             THEN IF JsonValid(json_match) THEN JsonLoads(json_match) ELSE None
             ELSE _fallback_parse(text)

\* GeminiClient.parse_task; reply is [raises, text]: generate_content raised, or
\* returned a response with that text
parse_task(text, reply) ==
    IF reply.raises THEN _fallback_parse(text)
    ELSE LET json_match == JsonSearch(reply.text)
         IN  IF json_match # <<>>
             THEN IF JsonValid(json_match) THEN JsonLoads(json_match)
                  ELSE _fallback_parse(text)
             ELSE _fallback_parse(text)

\* task_breakdown.get('tasks', [])
GetTasks(tb) == IF "tasks" \in tb.keys THEN tb.tasks ELSE <<>>

(***************************************************************************)
(* Values, exceptions.                                                     *)
(***************************************************************************)
Exception(cls, msg) == [cls |-> cls, msg |-> msg]

\* raise Exception(f"{prefix}{str(e)}")
Wrap(prefix, e) == Exception("Exception", <<prefix>> \o e.msg)

Sentinel == <<"No data available for analysis">>
Placeholder == <<"data:image/png;base64,", "1x1">>

\* DataAnalystAgent._should_return_json
JsonIndicators ==
    {"respond with a JSON object", "JSON object containing", "return as JSON",
     "\"question\":", "{\""}

_should_return_json(text) == \E indicator \in JsonIndicators : Contains(text, indicator)

\* str(i + 1) inside f'question_{i+1}'
SyntheticKey(n) ==
    CASE n = 1 -> <<"question_1">>
      [] n = 2 -> <<"question_2">>
      [] n = 3 -> <<"question_3">>
      [] n = 4 -> <<"question_4">>
      [] OTHER -> <<"question_n">>

\* task.get('question', f'question_{i+1}'), for a dict
QuestionKey(task, idx) ==
    IF "question" \in task.fields THEN task.question ELSE SyntheticKey(idx + 1)

\* d[key] = value
DictSet(d, key, value) ==
    [k \in (DOMAIN d) \cup {key} |-> IF k = key THEN value ELSE d[k]]

EmptyDict == [k \in {} |-> <<>>]

(***************************************************************************)
(* Dataset acquisition: scraping and table selection, remote query.        *)
(* A scraped page is [tables, list_items]; a raw table is                  *)
(* [rows, cols, nan_rows]; a data frame is [rows, cols].                   *)
(***************************************************************************)
Ok(v) == [ok |-> TRUE, v |-> v]
Raise(e) == [ok |-> FALSE, e |-> e]

RECURSIVE KeepWhere(_, _)
KeepWhere(seq, keep) ==
    IF seq = <<>> THEN <<>>
    ELSE IF keep[1] THEN <<Head(seq)>> \o KeepWhere(Tail(seq), Tail(keep))
    ELSE KeepWhere(Tail(seq), Tail(keep))

\* WebScraper.extract_tables: only tables with more than one row are kept
extract_tables(html) ==
    KeepWhere(html.tables, [k \in DOMAIN html.tables |-> html.tables[k].rows > 1])

TableKeywords == {"rank", "name", "title", "year", "gross", "revenue"}

\* the score of _select_best_table, in hundredths
TableScore(table) ==
    10 * table.rows + 5 * Len(table.cols)
    + 1000 * Cardinality({c \in DOMAIN table.cols :
                             \E kw \in TableKeywords : ContainsLower(<<table.cols[c]>>, kw)})

\* the loop of _select_best_table: index of the table kept in best_table, 0 for None
RECURSIVE BestFrom(_, _, _, _)
BestFrom(tables, k, best, best_score) ==
    IF k > Len(tables) THEN best
    ELSE IF TableScore(tables[k]) > best_score
         THEN BestFrom(tables, k + 1, k, TableScore(tables[k]))
         ELSE BestFrom(tables, k + 1, best, best_score)

\* DataAnalyzer._select_best_table; 'best_table or tables[0]' takes the truth
\* value of a data frame, which pandas refuses with a ValueError
_select_best_table(tables) ==
    IF Len(tables) = 1 THEN Ok(tables[1])
    ELSE LET best == BestFrom(tables, 1, 0, 0)
         IN  IF best = 0 THEN Ok(tables[1])
             ELSE Raise(Exception("ValueError",
                                  <<"The truth value of a DataFrame is ambiguous">>))

\* DataAnalyzer._clean_dataframe: dropna(how='all')
_clean_dataframe(table) == [rows |-> table.rows - table.nan_rows, cols |-> table.cols]

MinListItems == 5

\* DataAnalyzer._extract_structured_content: lists of more than five items
_extract_structured_content(html) ==
    IF html.list_items > MinListItems THEN html.list_items ELSE 0

\* DataAnalyzer.structure_data
structure_data(html) ==
    LET found == extract_tables(html)
    IN  IF found = <<>>
        THEN IF _extract_structured_content(html) > 0
             THEN Ok([rows |-> _extract_structured_content(html), cols |-> <<"text">>])
             ELSE Raise(Exception("Exception",
                                  <<"No structured data found in scraped content">>))
        ELSE LET sel == _select_best_table(found)
             IN  IF sel.ok THEN Ok(_clean_dataframe(sel.v)) ELSE sel

\* DataAnalyzer._extract_sql_query: a fenced sql block, else the first SELECT ... ;
SqlTokens == {"sql-block SELECT 1;", "SELECT 1;"}
_extract_sql_query(text) ==
    LET at == {k \in DOMAIN text : text[k] \in SqlTokens}
    IN  IF at = {} THEN <<>> ELSE <<text[CHOOSE k \in at : \A j \in at : k <= j]>>

\* DataAnalyzer.handle_duckdb_query; run is what connecting and running the
\* query does: Raise(e) or Ok(frame)
handle_duckdb_query(text, run) ==
    IF _extract_sql_query(text) = <<>>
    THEN Raise(Wrap("DuckDB query failed: ",
                    Exception("Exception", <<"No SQL query found in the request">>)))
    ELSE IF run.ok THEN run ELSE Raise(Wrap("DuckDB query failed: ", run.e))

\* only the absent dataset is short-circuited, not the empty one
C8_IsEmptyNoneOnly(data) == data = None

\* data is None or data.empty
IsEmpty(data) == data = None \/ data.rows = 0 \/ Len(data.cols) = 0

(***************************************************************************)
(* The sandbox executors: errors they raise and how they read the child's  *)
(* output.  intent is "analysis" (DataAnalyzer) or "chart"                 *)
(* (ChartGenerator).                                                       *)
(***************************************************************************)
Intent(task) == IF task.type = "visualization" THEN "chart" ELSE "analysis"

\* the except clause of analyze_with_llm_code / generate_chart_with_llm
WrapTask(intent, e) ==
    Wrap(IF intent = "chart" THEN "Chart generation failed: "
         ELSE "LLM-based analysis failed: ", e)

\* except subprocess.TimeoutExpired: raise Exception(...)
ExecTimeout(intent) ==
    Exception("Exception",
              <<IF intent = "chart" THEN "Chart generation timeout"
                ELSE "Analysis code execution timeout">>)

\* except Exception as e: raise Exception(...)
ExecFailure(intent, e) ==
    Wrap(IF intent = "chart" THEN "Chart execution error: "
         ELSE "Code execution error: ", e)

\* if result.returncode != 0: raise Exception(...)
NonZeroExit(intent, stderr) ==
    Exception("Exception",
              <<IF intent = "chart" THEN "Chart generation failed: "
                ELSE "Code execution failed: ", stderr>>)

MissingArtifact == Exception("Exception", <<"Chart image was not generated">>)

\* except Exception as e: raise Exception(f"...code generation failed: ...")
SynthFailure(intent, e) ==
    Wrap(IF intent = "chart" THEN "Chart code generation failed: "
         ELSE "Code generation failed: ", e)

\* GeminiClient.generate_content's except clause
LlmFailure == Wrap("LLM generation failed: ", Exception("Exception", <<"api error">>))

\* scratch files of one sub-task
File(idx, kind) == [task |-> idx, kind |-> kind]
ScratchFiles(idx, intent) ==
    {File(idx, "csv"), File(idx, "py")}
    \cup (IF intent = "chart" THEN {File(idx, "png")} ELSE {})

\* the line the analysis trailer prints, and a line the fragment printed itself
TrailerLine == "{\"result\": 42, \"type\": \"int\"}"
NoiseLine == "loading data"

RECURSIVE JoinLines(_)
JoinLines(lines) ==
    IF lines = <<>> THEN <<>>
    ELSE IF Len(lines) = 1 THEN <<lines[1]>>
    ELSE <<lines[1], NL>> \o JoinLines(Tail(lines))

\* json.loads(result.stdout.strip())['result'], else result.stdout.strip()
ParseStdout(lines) ==
    IF Len(lines) = 1 /\ lines[1] = TrailerLine THEN <<"42">>
    ELSE Strip(JoinLines(lines))

\* encoded payloads of a chart and their lengths in bytes
MaxEncoded == 100000
EncodedLen(payload) ==
    CASE payload = "" -> 0
      [] payload = "png_small" -> MaxEncoded
      [] payload = "png_large" -> MaxEncoded + 1
      [] payload = "png_recompressed" -> MaxEncoded - 1
      [] payload = "png_recompressed_large" -> MaxEncoded + 1
      [] payload = "png_truncated" -> MaxEncoded
      [] OTHER -> 0

\* ChartGenerator._compress_image; how is what PIL does with the image
_compress_image(payload, how) ==
    CASE how = "smaller" -> "png_recompressed"
      [] how = "larger" -> "png_recompressed_large"
      [] OTHER -> IF EncodedLen(payload) > MaxEncoded THEN "png_truncated" ELSE payload

\* lines 198-202 of visualizer.py
ChartUri(payload, how) ==
    <<"data:image/png;base64,",
      IF EncodedLen(payload) > MaxEncoded THEN _compress_image(payload, how) ELSE payload>>

(***************************************************************************)
(* Inputs of the pipeline: request texts, replies of the language model,   *)
(* scraped pages, query results, behaviours of the child process.          *)
(***************************************************************************)
RequestTexts ==
    { <<"1", ".", "PLOT", NL, "2", ".", "count">>,
      <<"http://u", NL, "1", ".", "count">>,
      <<"http://u", SP, "s3://", NL, "{\"question\":", NL, "1", ".", "graph">>,
      <<"duckdb", SP, "SELECT 1;", NL, "Return as JSON", NL,
        "1", ".", "count", NL, "1", ".", "count">>,
      <<"DuckDB", NL, "return as JSON">>,
      <<"S3://", NL, "1", ".", "PLOT">>,
      <<"{\"", NL, "1", ".", "x", NL, "1", ".", "x">> }

\* tasks as the language model may return them
TViz == Task("visualization", <<"q1">>)
TNum == Task("numerical", <<"q2">>)
TOther == Task("summary", <<"question_2">>)
TNoQuestion ==
    [kind |-> "dict", fields |-> {"type"}, type |-> "numerical",
     question |-> <<>>, details |-> <<>>, hashable |-> TRUE]
TNoType ==
    [kind |-> "dict", fields |-> {"question"}, type |-> "",
     question |-> <<"q3">>, details |-> <<>>, hashable |-> TRUE]
TUnhashable ==
    [kind |-> "dict", fields |-> {"type", "question"}, type |-> "numerical",
     question |-> <<"[list]">>, details |-> <<>>, hashable |-> FALSE]
TString ==
    [kind |-> "str", fields |-> {}, type |-> "",
     question |-> <<>>, details |-> <<>>, hashable |-> TRUE]

TaskShapes == {TViz, TNum, TOther, TNoQuestion, TNoType, TUnhashable, TString}

SeqsUpTo(S, n) == UNION {[1..k -> S] : k \in 0..n}

Said(text) == [raises |-> FALSE, text |-> text]
LlmDown == [raises |-> TRUE, text |-> <<>>]

PipelineReplies ==
    {LlmDown, Said(<<Prose>>), Said(<<LB, Prose, RB>>), Said(<<LB, SourceMember, RB>>),
     Said(<<LB, ScalarTasksMember, RB>>)}
    \cup {Said(<<LB, TasksMember(l), RB>>) : l \in SeqsUpTo(TaskShapes, MaxTasks)}

TableA == [rows |-> 6, cols |-> <<"text">>, nan_rows |-> 0]
TableNaN == [rows |-> 2, cols |-> <<"Rank", "x">>, nan_rows |-> 2]
TableTiny == [rows |-> 1, cols |-> <<"x">>, nan_rows |-> 0]
FrameA == [rows |-> 6, cols |-> <<"text">>]
FrameEmpty == [rows |-> 0, cols |-> <<"text">>]

Page(tables, list_items) == [tables |-> tables, list_items |-> list_items]

\* what scrape_url does: raises, or returns a page
ScrapeOutcomes ==
    {Raise(Exception("Exception", <<"net::ERR">>)),
     Ok(Page(<<>>, 0)), Ok(Page(<<>>, 6)), Ok(Page(<<TableTiny>>, 5)),
     Ok(Page(<<TableA>>, 0)), Ok(Page(<<TableNaN>>, 0)), Ok(Page(<<TableNaN, TableA>>, 0))}

\* what connecting to the remote store and running the query does
QueryRuns == {Raise(Exception("IOException", <<"HTTP 403">>)), Ok(FrameEmpty), Ok(FrameA)}

Stdouts == {<<TrailerLine>>, <<NoiseLine, TrailerLine>>, <<NoiseLine>>}
\* what the generated chart code does to the image file
ImageEffects == {"png_small", "png_large", "", "deleted"}
CompressOutcomes == {"smaller", "larger", "fails"}

(***************************************************************************)
(* process_request.                                                        *)
(***************************************************************************)
Resp(shape, arr, obj) == [shape |-> shape, arr |-> arr, obj |-> obj]

\* the top-level error returned as an array whatever the text says
C4_TopLevelErrorArray(text, e) ==
    Resp("array", <<<<"Processing failed: ">> \o e.msg>>, EmptyDict)

\* lines 76-78 of agent.py
TopLevelError(text, e) ==
    LET error_msg == <<"Processing failed: ">> \o e.msg
    IN  IF _should_return_json(text)
        THEN Resp("object", <<>>, DictSet(EmptyDict, <<"error">>, error_msg))
        ELSE Resp("array", <<error_msg>>, EmptyDict)

\* line 74 of agent.py
FinalResponse(is_json, arr, obj) ==
    IF is_json THEN Resp("object", <<>>, obj) ELSE Resp("array", arr, EmptyDict)

\* results.insert(0, result) in place of results.append(result)
C2_AppendResultFront(arr, v) == <<v>> \o arr

\* results.append(result)
AppendResult(arr, v) == Append(arr, v)

\* f"Error processing task: {str(e)}"
ErrorResult(e) == <<"Error processing task: ">> \o e.msg

\* the environment of the server process: the set of the variables that are
\* set, each with its value
Configured == {<<"GEMINI_API_KEY", "k">>}

\* api_key = os.getenv('GEMINI_API_KEY'), tested by 'if not api_key'
HasApiKey(e) == \E v \in e : v[1] = "GEMINI_API_KEY" /\ v[2] # ""

EmptyLog ==
    [acq |-> "none", path |-> <<>>, outcomes |-> <<>>, synth |-> {}, spawned |-> {},
     raised |-> None, ran |-> None, selected |-> <<>>]

Idle ==
    /\ llm_response = None
    /\ task_breakdown = None
    /\ structured_data = None
    /\ is_json_response = FALSE
    /\ tasks = <<>>
    /\ i = 0
    /\ result = <<>>
    /\ exc = None
    /\ results = <<>>
    /\ result_dict = EmptyDict
    /\ response = None
    /\ files = {}
    /\ child = None
    /\ http = None
    /\ candidates = <<>>
    /\ log = EmptyLog

Init ==
    /\ pc = "start"
    /\ question_text \in RequestTexts
    /\ env = Configured
    /\ Idle

\* the current task's call returns v / raises e (inside the loop's try)
Returns(v, lg) ==
    /\ result' = v
    /\ exc' = None
    /\ pc' = "record"
    /\ log' = [lg EXCEPT !.outcomes = Append(@, [task |-> i, ok |-> TRUE, val |-> v])]

Raises(e, lg) ==
    /\ result' = <<>>
    /\ exc' = e
    /\ pc' = "except"
    /\ log' = [lg EXCEPT !.outcomes = Append(@, [task |-> i, ok |-> FALSE, val |-> e.msg])]

\* line 24: task_breakdown = await self.llm.parse_task(question_text)
ParseTask ==
    /\ pc = "start"
    /\ \E reply \in PipelineReplies :
          /\ llm_response' = reply
          /\ task_breakdown' = parse_task(question_text, reply)
    /\ pc' = "acquire"
    /\ UNCHANGED <<question_text, structured_data, is_json_response, tasks, i, result,
                   exc, results, result_dict, response, files, child, env, http,
                   candidates, log>>

\* an acquisition failure swallowed: the request goes on without a dataset
C5_AcquiredSwallowed(out, path) ==
    /\ structured_data' = IF out.ok THEN out.v ELSE None
    /\ exc' = None
    /\ pc' = "prepare"
    /\ log' = [log EXCEPT !.acq = IF out.ok THEN "ok" ELSE "failed",
                           !.path = Append(@, path)]
    /\ UNCHANGED <<question_text, llm_response, task_breakdown, is_json_response, tasks,
                   i, result, results, result_dict, response, files, child, env, http>>

\* the acquisition returned or raised
Acquired(out, path) ==
    /\ IF out.ok
       THEN /\ structured_data' = out.v
            /\ exc' = None
            /\ pc' = "prepare"
            /\ log' = [log EXCEPT !.acq = "ok", !.path = Append(@, path)]
       ELSE /\ structured_data' = None
            /\ exc' = out.e
            /\ pc' = "outer_except"
            /\ log' = [log EXCEPT !.acq = "failed", !.path = Append(@, path)]
    /\ UNCHANGED <<question_text, llm_response, task_breakdown, is_json_response, tasks,
                   i, result, results, result_dict, response, files, child, env, http>>

\* scrape_url's except clause
ScrapeFailure(url, e) ==
    Exception("Exception", <<"Scraping failed for ">> \o url \o <<": ">> \o e.msg)

\* lines 30-33
AcquireScrape ==
    /\ pc = "acquire"
    /\ extract_url(question_text) # NoUrl
    /\ \E s \in ScrapeOutcomes :
          /\ Acquired(IF s.ok THEN structure_data(s.v)
                      ELSE Raise(ScrapeFailure(extract_url(question_text), s.e)), "scrape")
          /\ candidates' = IF s.ok THEN extract_tables(s.v) ELSE <<>>

\* the remote query run whenever the text has its signal, a URL or not
C18_AcquireQueryAlways ==
    /\ pc = "acquire"
    /\ ContainsLower(question_text, "duckdb") \/ Contains(question_text, "s3://")
    /\ \E run \in QueryRuns : Acquired(handle_duckdb_query(question_text, run), "query")
    /\ UNCHANGED candidates

\* lines 36-37
AcquireQuery ==
    /\ pc = "acquire"
    /\ extract_url(question_text) = NoUrl
    /\ ContainsLower(question_text, "duckdb") \/ Contains(question_text, "s3://")
    /\ \E run \in QueryRuns : Acquired(handle_duckdb_query(question_text, run), "query")
    /\ UNCHANGED candidates

\* neither branch: structured_data stays None
AcquireNothing ==
    /\ pc = "acquire"
    /\ extract_url(question_text) = NoUrl
    /\ ~(ContainsLower(question_text, "duckdb") \/ Contains(question_text, "s3://"))
    /\ pc' = "prepare"
    /\ log' = [log EXCEPT !.acq = "skipped"]
    /\ UNCHANGED <<question_text, llm_response, task_breakdown, structured_data,
                   is_json_response, tasks, i, result, exc, results, result_dict,
                   response, files, child, env, http, candidates>>

\* lines 40-51: the shape, the accumulators, the task list, entering the loop
Prepare ==
    /\ pc = "prepare"
    /\ is_json_response' = _should_return_json(question_text)
    /\ results' = <<>>
    /\ result_dict' = EmptyDict
    /\ i' = 0
    /\ IF ~task_breakdown.iterable
       THEN \* enumerate(tasks) raises
            /\ tasks' = <<>>
            /\ exc' = Exception("TypeError", <<"'int' object is not iterable">>)
            /\ pc' = "outer_except"
       ELSE /\ tasks' = IF GetTasks(task_breakdown) = <<>>
                        THEN _extract_questions_from_text(question_text)
                        ELSE GetTasks(task_breakdown)
            /\ exc' = None
            /\ pc' = "loop"
    /\ UNCHANGED <<question_text, llm_response, task_breakdown, structured_data,
                   result, response, files, child, env, http, candidates, log>>

reqVars == <<question_text, llm_response, task_breakdown, structured_data,
             is_json_response, tasks, env, http, candidates>>

\* lines 51-56, and the first test of the callee (lines 108 / 28): task['type'],
\* the choice of the callee, the short-circuit on an absent or empty dataset
Dispatch ==
    /\ pc = "loop"
    /\ i < Len(tasks)
    /\ LET task == tasks[i + 1]
       IN  IF task.kind # "dict"
           THEN Raises(Exception("TypeError", <<"string indices must be integers">>), log)
           ELSE IF "type" \notin task.fields
           THEN Raises(Exception("KeyError", <<"'type'">>), log)
           ELSE IF IsEmpty(structured_data)
           THEN Returns(IF Intent(task) = "chart" THEN Placeholder ELSE Sentinel, log)
           ELSE /\ pc' = "synth"
                /\ UNCHANGED <<result, exc, log>>
    /\ UNCHANGED <<reqVars, i, results, result_dict, response, files, child>>

\* _create_sample_data and _generate_analysis_code / _generate_chart_code: the
\* prompt reads task['question'], then the language model is called
Synthesize ==
    /\ pc = "synth"
    /\ LET task == tasks[i + 1]
           intent == Intent(task)
       IN  IF "question" \notin task.fields
           THEN Raises(WrapTask(intent, Exception("KeyError", <<"'question'">>)), log)
           ELSE \E up \in BOOLEAN :
                   IF up
                   THEN /\ pc' = "write"
                        /\ log' = [log EXCEPT !.synth = @ \cup {i}]
                        /\ UNCHANGED <<result, exc>>
                   ELSE Raises(WrapTask(intent, SynthFailure(intent, LlmFailure)),
                               [log EXCEPT !.synth = @ \cup {i}])
    /\ UNCHANGED <<reqVars, i, results, result_dict, response, files, child>>

\* _save_temp_data and the with-block that creates the program file (and, for a
\* chart, the image file) and writes the program text
WriteProgram ==
    /\ pc = "write"
    /\ LET intent == Intent(tasks[i + 1])
           e == ExecFailure(intent, Exception("OSError", <<"No space left on device">>))
       IN  /\ files' = files \cup ScratchFiles(i, intent)
           /\ \E written \in BOOLEAN :
                 IF written
                 THEN /\ pc' = "spawn"
                      /\ UNCHANGED <<result, exc, log>>
                 ELSE Raises(WrapTask(intent, e),
                             [log EXCEPT !.raised = [cause |-> "write", e |-> e]])
    /\ UNCHANGED <<reqVars, i, results, result_dict, response, child>>

\* what a child that exited with status zero did: the lines it printed, what
\* it left in the image file, and what the recompression pass then did
Ran(intent, stdout, image, how) ==
    [intent |-> intent, stdout |-> stdout, image |-> image, how |-> how]

\* subprocess.run starts the child
SpawnChild ==
    /\ pc = "spawn"
    /\ child' = [task |-> i, intent |-> Intent(tasks[i + 1])]
    /\ log' = [log EXCEPT !.spawned = @ \cup {i}]
    /\ pc' = "wait"
    /\ UNCHANGED <<reqVars, i, result, exc, results, result_dict, response, files>>

\* the child exceeds the timeout: subprocess.run kills it and raises TimeoutExpired
ChildTimeout ==
    /\ pc = "wait"
    /\ child' = None
    /\ LET e == ExecTimeout(child.intent)
       IN  Raises(WrapTask(child.intent, e),
                  [log EXCEPT !.raised = [cause |-> "timeout", e |-> e]])
    /\ UNCHANGED <<reqVars, i, results, result_dict, response, files>>

\* the child exits with a non-zero status
ChildFails ==
    /\ pc = "wait"
    /\ child' = None
    /\ files' = files \ {File(i, "py"), File(i, "csv")}
    /\ LET e == ExecFailure(child.intent, NonZeroExit(child.intent, "Traceback"))
       IN  Raises(WrapTask(child.intent, e),
                  [log EXCEPT !.raised = [cause |-> "exit", e |-> e]])
    /\ UNCHANGED <<reqVars, i, results, result_dict, response>>

\* the analysis child exits with status zero
AnalysisExit ==
    /\ pc = "wait"
    /\ child.intent = "analysis"
    /\ child' = None
    /\ files' = files \ {File(i, "py"), File(i, "csv")}
    /\ \E out \in Stdouts :
          Returns(ParseStdout(out), [log EXCEPT !.ran = Ran("analysis", out, "", "")])
    /\ UNCHANGED <<reqVars, i, results, result_dict, response>>

\* the chart child exits with status zero
ChartExit ==
    /\ pc = "wait"
    /\ child.intent = "chart"
    /\ child' = None
    /\ files' = files \ ScratchFiles(i, "chart")
    /\ \E img \in ImageEffects, how \in CompressOutcomes :
          IF img = "deleted"
          THEN LET e == ExecFailure("chart", MissingArtifact)
               IN  Raises(WrapTask("chart", e),
                          [log EXCEPT !.raised = [cause |-> "artifact", e |-> e],
                                      !.ran = Ran("chart", <<>>, img, how)])
          ELSE Returns(ChartUri(img, how), [log EXCEPT !.ran = Ran("chart", <<>>, img, how)])
    /\ UNCHANGED <<reqVars, i, results, result_dict, response>>

\* the last outcome of the history replaced by a failure
Failed(lg, e) ==
    [lg EXCEPT !.outcomes = [@ EXCEPT ![Len(@)] = [task |-> i, ok |-> FALSE, val |-> e.msg]]]

\* lines 58-64
Record ==
    /\ pc = "record"
    /\ LET task == tasks[i + 1]
       IN  IF ~is_json_response
           THEN /\ results' = AppendResult(results, result)
                /\ i' = i + 1
                /\ pc' = "loop"
                /\ log' = [log EXCEPT !.raised = None, !.ran = None]
                /\ UNCHANGED <<result_dict, exc>>
           ELSE IF ~task.hashable
           THEN /\ exc' = Exception("TypeError", <<"unhashable type: 'list'">>)
                /\ pc' = "except"
                /\ log' = Failed(log, Exception("TypeError", <<"unhashable type: 'list'">>))
                /\ UNCHANGED <<results, result_dict, i>>
           ELSE /\ result_dict' = DictSet(result_dict, QuestionKey(task, i), result)
                /\ i' = i + 1
                /\ pc' = "loop"
                /\ log' = [log EXCEPT !.raised = None, !.ran = None]
                /\ UNCHANGED <<results, exc>>
    /\ UNCHANGED <<reqVars, result, response, files, child>>

\* lines 66-72
Except ==
    /\ pc = "except"
    /\ LET task == tasks[i + 1]
           error_result == ErrorResult(exc)
       IN  IF ~is_json_response
           THEN /\ results' = AppendResult(results, error_result)
                /\ i' = i + 1
                /\ pc' = "loop"
                /\ exc' = None
                /\ log' = [log EXCEPT !.raised = None, !.ran = None]
                /\ UNCHANGED result_dict
           ELSE IF task.kind # "dict"
           THEN /\ exc' = Exception("AttributeError",
                                    <<"'str' object has no attribute 'get'">>)
                /\ pc' = "outer_except"
                /\ UNCHANGED <<results, result_dict, i, log>>
           ELSE IF ~task.hashable
           THEN /\ exc' = Exception("TypeError", <<"unhashable type: 'list'">>)
                /\ pc' = "outer_except"
                /\ UNCHANGED <<results, result_dict, i, log>>
           ELSE /\ result_dict' = DictSet(result_dict, QuestionKey(task, i), error_result)
                /\ i' = i + 1
                /\ pc' = "loop"
                /\ exc' = None
                /\ log' = [log EXCEPT !.raised = None, !.ran = None]
                /\ UNCHANGED results
    /\ UNCHANGED <<reqVars, result, response, files, child>>

\* line 74
Return ==
    /\ pc = "loop"
    /\ i >= Len(tasks)
    /\ response' = FinalResponse(is_json_response, results, result_dict)
    /\ pc' = "done"
    /\ UNCHANGED <<reqVars, i, result, exc, results, result_dict, files, child, log>>

\* lines 76-78
OuterExcept ==
    /\ pc = "outer_except"
    /\ response' = TopLevelError(question_text, exc)
    /\ pc' = "done"
    /\ UNCHANGED <<reqVars, i, result, exc, results, result_dict, files, child, log>>

Next ==
    \/ ParseTask
    \/ AcquireScrape
    \/ AcquireQuery
    \/ AcquireNothing
    \/ Prepare
    \/ Dispatch
    \/ Synthesize
    \/ WriteProgram
    \/ SpawnChild
    \/ ChildTimeout
    \/ ChildFails
    \/ AnalysisExit
    \/ ChartExit
    \/ Record
    \/ Except
    \/ Return
    \/ OuterExcept

Spec == Init /\ [][Next]_vars

(***************************************************************************)
(* The HTTP service of api/index.py: the import of the modules when the    *)
(* process starts, then analyze_data for one request after the other.      *)
(* pc is "boot" while the process starts, "crashed" once it has died,      *)
(* "serving" while it waits for a request.                                 *)
(***************************************************************************)
\* the environments the process may be started in: the credential unset, set to
\* the empty string, set
Environments == {{}, {<<"GEMINI_API_KEY", "">>}, Configured}

\* bodies of the requests sent to /api/
RequestBodies == RequestTexts \cup {<<>>, <<SP, NL>>}

\* return jsonify(body), status
Reply(status, body) == [status |-> status, body |-> body]

\* jsonify({'error': ...})
ErrorBody(msg) == Resp("object", <<>>, DictSet(EmptyDict, <<"error">>, msg))

\* raise ValueError("GEMINI_API_KEY environment variable is required")
MissingApiKey ==
    Exception("ValueError", <<"GEMINI_API_KEY environment variable is required">>)

InitService ==
    /\ pc = "boot"
    /\ question_text = <<>>
    /\ env \in Environments
    /\ Idle

\* lines 15-25 and 82-83 of index.py: agent and the modules it names are
\* imported (no client is constructed and the environment is not read), then
\* the server starts; the import raises ImportError, which is re-raised, when
\* the modules do not resolve on sys.path
ImportModules ==
    /\ pc = "boot"
    /\ \E resolved \in BOOLEAN : pc' = IF resolved THEN "serving" ELSE "crashed"
    /\ UNCHANGED <<reqVars, i, result, exc, results, result_dict, response, files,
                   child, log>>

\* lines 30-60 of index.py: the text of the request is read; an empty one is
\* answered with status 400
ReceiveRequest ==
    /\ pc = "serving"
    /\ \E body \in RequestBodies :
          /\ question_text' = body
          /\ IF Strip(body) = <<>>
             THEN /\ http' = Reply(400, ErrorBody(<<"No question provided">>))
                  /\ pc' = "replied"
             ELSE /\ http' = None
                  /\ pc' = "construct"
    /\ UNCHANGED <<llm_response, task_breakdown, structured_data, is_json_response,
                   tasks, i, result, exc, results, result_dict, response, files, child,
                   env, candidates, log>>

\* line 63 of index.py: agent = DataAnalystAgent(), whose first statement
\* constructs a GeminiClient; the ValueError it raises is caught at line 68
ConstructAgent ==
    /\ pc = "construct"
    /\ IF HasApiKey(env)
       THEN /\ pc' = "start"
            /\ UNCHANGED http
       ELSE /\ http' = Reply(500, ErrorBody(MissingApiKey.msg))
            /\ pc' = "replied"
    /\ UNCHANGED <<question_text, llm_response, task_breakdown, structured_data,
                   is_json_response, tasks, i, result, exc, results, result_dict,
                   response, files, child, env, candidates, log>>

\* lines 64-66 of index.py: the value of process_request is sent
Respond ==
    /\ pc = "done"
    /\ http' = Reply(200, response)
    /\ pc' = "replied"
    /\ UNCHANGED <<question_text, llm_response, task_breakdown, structured_data,
                   is_json_response, tasks, i, result, exc, results, result_dict,
                   response, files, child, env, candidates, log>>

\* the reply is sent and the server waits for the next request; the locals of
\* the handler are gone, the scratch files left on disk stay
NextRequest ==
    /\ pc = "replied"
    /\ pc' = "serving"
    /\ question_text' = <<>>
    /\ llm_response' = None
    /\ task_breakdown' = None
    /\ structured_data' = None
    /\ is_json_response' = FALSE
    /\ tasks' = <<>>
    /\ i' = 0
    /\ result' = <<>>
    /\ exc' = None
    /\ results' = <<>>
    /\ result_dict' = EmptyDict
    /\ response' = None
    /\ child' = None
    /\ http' = None
    /\ candidates' = <<>>
    /\ log' = EmptyLog
    /\ UNCHANGED <<env, files>>

NextService ==
    \/ ImportModules
    \/ ReceiveRequest
    \/ ConstructAgent
    \/ ParseTask
    \/ AcquireScrape
    \/ AcquireQuery
    \/ AcquireNothing
    \/ Prepare
    \/ Dispatch
    \/ Synthesize
    \/ WriteProgram
    \/ SpawnChild
    \/ ChildTimeout
    \/ ChildFails
    \/ AnalysisExit
    \/ ChartExit
    \/ Record
    \/ Except
    \/ Return
    \/ OuterExcept
    \/ Respond
    \/ NextRequest

SpecService == InitService /\ [][NextService]_vars

(***************************************************************************)
(* The two fallback parsers applied to every short text.                   *)
(***************************************************************************)
FallbackVocab == {"1", ".", SP, NL, "correlation", "PLOT", "graph", "count", "number of"}

InitFallback ==
    /\ pc = "text"
    /\ question_text \in SeqsUpTo(FallbackVocab, MaxTextLen)
    /\ env = Configured
    /\ Idle

\* GeminiClient._fallback_parse(question_text)
FallbackClient ==
    /\ pc = "text"
    /\ task_breakdown' = _fallback_parse(question_text)
    /\ pc' = "client"
    /\ UNCHANGED <<question_text, llm_response, structured_data, is_json_response, tasks,
                   i, result, exc, results, result_dict, response, files, child, env, http,
                   candidates, log>>

\* DataAnalystAgent._extract_questions_from_text(question_text)
FallbackAgent ==
    /\ pc = "client"
    /\ tasks' = _extract_questions_from_text(question_text)
    /\ pc' = "both"
    /\ UNCHANGED <<question_text, llm_response, task_breakdown, structured_data,
                   is_json_response, i, result, exc, results, result_dict, response,
                   files, child, env, http, candidates, log>>

NextFallback ==
    \/ FallbackClient
    \/ FallbackAgent

SpecFallback == InitFallback /\ [][NextFallback]_vars

(***************************************************************************)
(* parse_task applied to every short reply of the language model.          *)
(***************************************************************************)
ReplyTokens == {LB, RB, Prose, SourceMember, TasksMember(<<>>), TasksMember(<<TNum>>)}

AllReplies == {LlmDown} \cup {Said(t) : t \in SeqsUpTo(ReplyTokens, MaxReplyLen)}

InitDecompose ==
    /\ pc = "decompose"
    /\ question_text \in RequestTexts
    /\ env = Configured
    /\ Idle

\* GeminiClient.parse_task(question_text)
Decompose ==
    /\ pc = "decompose"
    /\ \E reply \in AllReplies :
          /\ llm_response' = reply
          /\ task_breakdown' = parse_task(question_text, reply)
    /\ pc' = "decomposed"
    /\ UNCHANGED <<question_text, structured_data, is_json_response, tasks, i, result,
                   exc, results, result_dict, response, files, child, env, http,
                   candidates, log>>

NextDecompose ==
    \/ Decompose

SpecDecompose == InitDecompose /\ [][NextDecompose]_vars

(***************************************************************************)
(* _select_best_table applied, twice, to every short sequence of candidate *)
(* tables.                                                                 *)
(***************************************************************************)
TableB == [rows |-> 6, cols |-> <<"body">>, nan_rows |-> 0]
TableYear == [rows |-> 2, cols |-> <<"Year", "Gross">>, nan_rows |-> 0]
TableNone == [rows |-> 0, cols |-> <<>>, nan_rows |-> 0]

CandidateTables == {TableA, TableB, TableNaN, TableYear, TableNone}

InitSelect ==
    /\ pc = "select"
    /\ question_text = <<>>
    /\ env = Configured
    /\ \E ts \in SeqsUpTo(CandidateTables, MaxTables) :
          /\ ts # <<>>
          /\ candidates = ts
    /\ llm_response = None
    /\ task_breakdown = None
    /\ structured_data = None
    /\ is_json_response = FALSE
    /\ tasks = <<>>
    /\ i = 0
    /\ result = <<>>
    /\ exc = None
    /\ results = <<>>
    /\ result_dict = EmptyDict
    /\ response = None
    /\ files = {}
    /\ child = None
    /\ http = None
    /\ log = EmptyLog

\* main_table = self._select_best_table(tables, task_info)
SelectBest ==
    /\ pc = "select"
    /\ log' = [log EXCEPT !.selected = Append(@, _select_best_table(candidates))]
    /\ pc' = "selected"
    /\ UNCHANGED <<reqVars, i, result, exc, results, result_dict, response, files, child>>

\* the same call once more, over the same candidates
SelectAgain ==
    /\ pc = "selected"
    /\ log' = [log EXCEPT !.selected = Append(@, _select_best_table(candidates))]
    /\ pc' = "reselected"
    /\ UNCHANGED <<reqVars, i, result, exc, results, result_dict, response, files, child>>

NextSelect ==
    \/ SelectBest
    \/ SelectAgain

SpecSelect == InitSelect /\ [][NextSelect]_vars

(***************************************************************************)
(* Properties.                                                             *)
(***************************************************************************)
\* the response entry of an outcome of the history
Rendered(o) == IF o.ok THEN o.val ELSE <<"Error processing task: ">> \o o.val

\* the request got as far as the loop over the tasks
LoopRan == pc = "done" /\ log.acq # "failed" /\ task_breakdown.iterable

\* the key of the k-th task in an object response
KeyOf(k) ==
    IF tasks[k].kind = "dict" /\ "question" \in tasks[k].fields
    THEN tasks[k].question ELSE SyntheticKey(k)

\* the last task that has the key of the k-th task
LastWithKey(k) ==
    CHOOSE j \in 1..Len(tasks) :
        /\ KeyOf(j) = KeyOf(k)
        /\ \A m \in 1..Len(tasks) : KeyOf(m) = KeyOf(k) => m <= j

\* C1: a task that fails never aborts the batch: whatever the shape of the tasks
\* and the response mode, every task of the list has an outcome, and the final
\* response holds the result or the error string of every task at its position
\* (array mode) or under its key (object mode).
C1_FailureIsolated ==
    LoopRan =>
        /\ Len(log.outcomes) = Len(tasks)
        /\ \A k \in 1..Len(tasks) : log.outcomes[k].task = k - 1
        /\ IF response.shape = "array"
           THEN /\ Len(response.arr) = Len(tasks)
                /\ \A k \in 1..Len(tasks) : response.arr[k] = Rendered(log.outcomes[k])
           ELSE \A k \in 1..Len(tasks) :
                   /\ KeyOf(k) \in DOMAIN response.obj
                   /\ response.obj[KeyOf(k)] = Rendered(log.outcomes[LastWithKey(k)])

\* C2: in array mode, once the dataset was acquired (or none was asked for), the
\* response is a sequence with one element per task of the list the loop
\* iterates (the breakdown's tasks, or the lines of the text when it has none),
\* the k-th element being the result or error string of the k-th task.
C2_ArrayOrder ==
    (LoopRan /\ response.shape = "array") =>
        /\ tasks = IF GetTasks(task_breakdown) # <<>> THEN GetTasks(task_breakdown)
                   ELSE _extract_questions_from_text(question_text)
        /\ Len(response.arr) = Len(tasks)
        /\ Len(log.outcomes) = Len(tasks)
        /\ \A k \in 1..Len(tasks) :
              /\ log.outcomes[k].task = k - 1
              /\ response.arr[k] = Rendered(log.outcomes[k])

C2_Witness ==
    /\ LoopRan
    /\ response.shape = "array"
    /\ log.acq = "ok"
    /\ Len(tasks) = 2
    /\ Len(log.outcomes) = 2
    /\ log.outcomes[1].ok
    /\ ~log.outcomes[2].ok

\* C3: in object mode the response maps the key of every task (its question,
\* or question_n for the n-th task when it has none) to the result or error
\* string of the last task with that key, and has no other key, so that it has
\* at most as many keys as there are tasks.
C3_ObjectKeys ==
    (LoopRan /\ response.shape = "object") =>
        /\ Len(log.outcomes) = Len(tasks)
        /\ DOMAIN response.obj = {KeyOf(k) : k \in 1..Len(tasks)}
        /\ \A k \in 1..Len(tasks) :
              response.obj[KeyOf(k)] = Rendered(log.outcomes[LastWithKey(k)])
        /\ Cardinality(DOMAIN response.obj) <= Len(tasks)

\* the signals of the object shape
C4_Signals ==
    {"respond with a JSON object", "JSON object containing", "return as JSON",
     "\"question\":", "{\""}

\* C4: the shape of the response is decided by the request text alone: on every
\* path the response is an object exactly when the text contains one of the
\* five signals, and the shape used inside the loop is the same.
C4_ShapeFromText ==
    LET signalled == \E sig \in C4_Signals : Contains(question_text, sig)
    IN  /\ pc = "done" => (response.shape = "object") = signalled
        /\ pc \in {"loop", "synth", "write", "spawn", "wait", "record", "except"}
              => is_json_response = signalled

C4_Witness ==
    /\ pc = "done"
    /\ response.shape = "object"
    /\ Contains(question_text, "\"question\":")
    /\ log.acq = "failed"

\* C5: when the acquisition of the dataset fails, the request ends with exactly
\* one top-level error entry (a one-element array, or an object with the one key
\* "error"), and no task is processed: no code is synthesized, no child process
\* is spawned.
C5_AcquisitionFatal ==
    log.acq = "failed" =>
        /\ pc \in {"outer_except", "done"}
        /\ log.outcomes = <<>>
        /\ log.synth = {}
        /\ log.spawned = {}
        /\ child = None
        /\ files = {}
        /\ pc = "done" =>
              IF _should_return_json(question_text)
              THEN /\ response.shape = "object"
                   /\ DOMAIN response.obj = {<<"error">>}
                   /\ Head(response.obj[<<"error">>]) = "Processing failed: "
              ELSE /\ response.shape = "array"
                   /\ Len(response.arr) = 1
                   /\ Head(response.arr[1]) = "Processing failed: "

C5_Witness ==
    /\ pc = "done"
    /\ log.acq = "failed"
    /\ response.shape = "array"
    /\ GetTasks(task_breakdown) # <<>>

\* C8: with a dataset of zero rows, the analysis path returns the sentinel
\* string and the chart path the placeholder image, no child process is spawned
\* and no scratch file is created.
C8_EmptyShortCircuit ==
    (structured_data # None /\ structured_data.rows = 0) =>
        /\ log.spawned = {}
        /\ log.synth = {}
        /\ child = None
        /\ files = {}
        /\ pc \notin {"synth", "write", "spawn", "wait"}
        /\ pc = "record" =>
              result = IF tasks[i + 1].type = "visualization"
                       THEN <<"data:image/png;base64,", "1x1">>
                       ELSE <<"No data available for analysis">>

C8_Witness ==
    /\ pc = "record"
    /\ structured_data # None
    /\ structured_data.rows = 0
    /\ tasks[i + 1].type = "visualization"
    /\ result = Placeholder

\* C9: a timeout of the child is raised by the executor as an error of the
\* kind TimeoutError, a kind other than the one it raises for a non-zero exit
\* or a missing image.
C9_TimeoutDistinct ==
    (log.raised # None /\ log.raised.cause = "timeout") =>
        /\ log.raised.e.cls = "TimeoutError"
        /\ \A intent \in {"analysis", "chart"} :
              log.raised.e.cls # ExecFailure(intent, NonZeroExit(intent, "Traceback")).cls
        /\ log.raised.e.cls # ExecFailure("chart", MissingArtifact).cls

\* C10: once the executor has returned or raised, none of the scratch files of
\* the sub-task exists any more.
C10_ScratchDeleted ==
    pc \in {"record", "except", "loop", "outer_except", "done"} => files = {}

\* the reply holds a JSON object between its first opening and last closing brace
C6_Parseable(text) ==
    \E lo \in DOMAIN text, hi \in DOMAIN text :
        /\ lo < hi
        /\ text[lo] = LB
        /\ text[hi] = RB
        /\ \A j \in 1..(lo - 1) : text[j] # LB
        /\ \A j \in (hi + 1)..Len(text) : text[j] # RB
        /\ \A j \in (lo + 1)..(hi - 1) : text[j].t = "member"

\* C6: parse_task returns a breakdown whatever the language model does, and
\* returns the fallback parse of the text whenever the call raises or the reply
\* holds no span, from its first opening to its last closing brace, that is a
\* JSON object.
C6_NeverFails ==
    pc = "decomposed" =>
        /\ DOMAIN task_breakdown = {"keys", "data_source", "tasks", "iterable"}
        /\ (llm_response.raises \/ ~C6_Parseable(llm_response.text))
              => task_breakdown = _fallback_parse(question_text)

C6_Witness ==
    /\ pc = "decomposed"
    /\ ~llm_response.raises
    /\ JsonSearch(llm_response.text) # <<>>
    /\ ~C6_Parseable(llm_response.text)
    /\ task_breakdown.tasks # <<>>

\* C7: the fallback parse of the decomposer and the line scan of the aggregator
\* give the same list of tasks for every text.
C7_SameFallback == pc = "both" => task_breakdown.tasks = tasks

\* the chart child of the current task exited with status zero and the executor
\* has returned (pc = "record") or raised (pc = "except")
ChartRan ==
    /\ pc \in {"record", "except"}
    /\ log.ran # None
    /\ log.ran.intent = "chart"
    /\ pc = "except" => log.raised # None

\* the analysis child of the current task exited with status zero and the
\* executor has returned
AnalysisRan == pc = "record" /\ log.ran # None /\ log.ran.intent = "analysis"

\* C11: when the chart child exits with status zero and has written no image
\* to the output path (it left the file as it was, or removed it), the executor
\* raises "Chart image was not generated" and returns no image data URI.
C11_MissingImageFails ==
    (ChartRan /\ log.ran.image \in {"", "deleted"}) =>
        /\ pc = "except"
        /\ exc # None
        /\ \E k \in DOMAIN exc.msg : exc.msg[k] = "Chart image was not generated"
        /\ result = <<>>

\* C12: whatever image the child rendered and whatever the recompression pass
\* did, the payload of a data URI the chart executor returns is at most
\* 100,000 bytes long.
C12_SizeBounded ==
    (ChartRan /\ pc = "record") =>
        /\ Len(result) = 2
        /\ result[1] = "data:image/png;base64,"
        /\ EncodedLen(result[2]) <= 100000

\* C14: when the analysis child exits with status zero, the executor returns
\* the result field of the last line of standard output when that line is the
\* trailer's JSON line, whatever was printed before it, and the trimmed text of
\* standard output only when that line is no JSON.
C14_LastJsonLine ==
    AnalysisRan =>
        LET stdout == log.ran.stdout
        IN  IF stdout[Len(stdout)] = TrailerLine
            THEN result = <<"42">>
            ELSE result = Strip(JoinLines(stdout))

\* C13: a missing credential is fatal when the process starts: started without
\* the credential (unset or empty), the service never gets to wait for or handle
\* a request, and so never answers one with an error.
C13_CredentialFatalAtStart ==
    ~HasApiKey(env) =>
        /\ pc \in {"boot", "crashed"}
        /\ http = None

\* the request is inside the loop over the tasks
InLoop == pc \in {"loop", "synth", "write", "spawn", "wait", "record", "except"}

\* C15: the tasks are processed one at a time, in the order of the list and
\* each exactly once: the outcomes are those of tasks 0, 1, 2, ... in that order
\* and, when the request returns, there is one for every task; nothing of a
\* task is synthesized or spawned before every earlier task is recorded; a
\* child exists only while its own task waits for it; the dataset is acquired
\* at most once, before any task; and a task goes to the chart pair exactly
\* when its type is visualization.
C15_Sequential ==
    /\ \A k \in DOMAIN log.outcomes : log.outcomes[k].task = k - 1
    /\ Len(log.path) <= 1
    /\ pc \in {"start", "acquire"} =>
          log.outcomes = <<>> /\ log.synth = {} /\ log.spawned = {} /\ child = None
    /\ InLoop =>
          /\ Len(log.outcomes) \in {i, i + 1}
          /\ log.synth \subseteq 0..i
          /\ log.spawned \subseteq 0..i
          /\ IF is_json_response
             THEN \A k \in 1..i : KeyOf(k) \in DOMAIN result_dict
             ELSE Len(results) = i
    /\ child # None =>
          /\ pc = "wait"
          /\ child.task = i
          /\ (child.intent = "chart") = (tasks[i + 1].type = "visualization")
          /\ (child.intent = "analysis") = (tasks[i + 1].type # "visualization")
    /\ \A f \in files : f.kind = "png" => tasks[f.task + 1].type = "visualization"
    /\ LoopRan => Len(log.outcomes) = Len(tasks)

\* the text names no source: no URL, not the word duckdb in any case, no s3://
C18_NoSource ==
    /\ \A k \in DOMAIN question_text : question_text[k] \notin {"http://u", "https://v"}
    /\ \A k \in DOMAIN question_text :
          question_text[k] \notin {"duckdb", "DuckDB", "s3://"}

\* the text names both sources: a URL, and duckdb or s3://
C18_BothSources ==
    /\ \E k \in DOMAIN question_text : question_text[k] \in {"http://u", "https://v"}
    /\ \E k \in DOMAIN question_text : question_text[k] \in {"duckdb", "DuckDB", "s3://"}

\* C18: when the text names no source, nothing is acquired and no acquisition
\* error is reported, the dataset stays absent, every task with a type yields
\* the placeholder image (visualization) or the sentinel string (any other
\* type), and no code is synthesized and no child spawned; when the text names
\* both a URL and a remote query, only the page is scraped.
C18_NoSourceNoAcquisition ==
    /\ C18_NoSource =>
          /\ log.path = <<>>
          /\ log.acq \in {"none", "skipped"}
          /\ exc # None =>
                Head(exc.msg) \notin {"Scraping failed for ", "DuckDB query failed: ",
                                      "No structured data found in scraped content"}
          /\ structured_data = None
          /\ candidates = <<>>
          /\ log.synth = {}
          /\ log.spawned = {}
          /\ child = None
          /\ files = {}
          /\ pc \notin {"synth", "write", "spawn", "wait"}
          /\ pc = "record" =>
                result = IF tasks[i + 1].type = "visualization"
                         THEN <<"data:image/png;base64,", "1x1">>
                         ELSE <<"No data available for analysis">>
          /\ pc = "except" =>
                \/ tasks[i + 1].kind # "dict"
                \/ "type" \notin tasks[i + 1].fields
                \/ result = <<"No data available for analysis">>
    /\ C18_BothSources => log.path \in {<<>>, <<"scrape">>}

C18_Witness ==
    /\ pc = "done"
    /\ C18_NoSource
    /\ llm_response.raises
    /\ response.shape = "array"
    /\ response.arr = <<Placeholder, Sentinel>>

\* the line without its leading whitespace
C16_LStrip(line) ==
    LET keep == {k \in DOMAIN line : ~IsSpace(line[k])}
    IN  IF keep = {} THEN <<>>
        ELSE SubSeq(line, CHOOSE k \in keep : \A j \in keep : k <= j, Len(line))

\* the line begins with an ordinal marker: digits, a dot, a space
C16_HasMarker(line) ==
    \E k \in DOMAIN line :
        /\ k >= 2
        /\ \A j \in 1..(k - 1) : line[j] \in {"1", "2"}
        /\ line[k] = "."
        /\ k < Len(line)
        /\ line[k + 1] = " "

\* the type of a line: the first rule that matches, whatever the case
C16_Type(line) ==
    IF ContainsLower(line, "correlation") THEN "correlation"
    ELSE IF \E w \in {"draw", "plot", "chart", "scatterplot", "graph"} :
               ContainsLower(line, w)
         THEN "visualization"
    ELSE IF \E w \in {"how many", "count", "number of"} : ContainsLower(line, w)
         THEN "numerical"
    ELSE "text"

\* the types of the tasks of the marked lines, in line order
RECURSIVE C16_Expected(_)
C16_Expected(lines) ==
    IF lines = <<>> THEN <<>>
    ELSE IF C16_HasMarker(C16_LStrip(Head(lines)))
         THEN <<C16_Type(Head(lines))>> \o C16_Expected(Tail(lines))
         ELSE C16_Expected(Tail(lines))

\* the types of a list of tasks
C16_Types(ts) == [k \in DOMAIN ts |-> ts[k].type]

\* C16: the fallback parse (of the decomposer, and of the aggregator) yields
\* one task for every line that begins with digits, a dot and a space, in line
\* order, and none for any other line; the type of each task is given by the
\* first matching rule of correlation > visualization (draw, plot, chart,
\* scatterplot, graph) > numerical (how many, count, number of) > text, matched
\* whatever the case.
C16_FallbackParse ==
    pc = "both" =>
        /\ C16_Types(tasks) = C16_Expected(SplitLines(question_text))
        /\ C16_Types(task_breakdown.tasks) = C16_Expected(SplitLines(question_text))

\* the score of a table, in hundredths: 0.1 per row, 0.05 per column, 10 per
\* column whose name contains one of the six keywords
C17_Score(table) ==
    10 * table.rows + 5 * Len(table.cols)
    + 1000 * Cardinality({c \in DOMAIN table.cols :
                             \E kw \in {"rank", "name", "title", "year", "gross", "revenue"} :
                                ContainsLower(<<table.cols[c]>>, kw)})

\* the earliest candidate among those of the highest score
C17_Best(ts) ==
    ts[CHOOSE k \in DOMAIN ts :
          /\ \A j \in DOMAIN ts : C17_Score(ts[j]) <= C17_Score(ts[k])
          /\ \A j \in 1..(k - 1) : C17_Score(ts[j]) < C17_Score(ts[k])]

\* C17: for every non-empty sequence of candidate tables, of two or more
\* tables too, _select_best_table returns, without raising, the candidate of the
\* highest score (the earliest one among equal scores), and a second call over
\* the same candidates returns the same table.
C17_SelectBest ==
    pc \in {"selected", "reselected"} =>
        /\ \A k \in DOMAIN log.selected :
              /\ log.selected[k].ok
              /\ log.selected[k].v = C17_Best(candidates)
        /\ pc = "reselected" => log.selected[1] = log.selected[2]

====
